---- MODULE Spec2Model ----
(***************************************************************************)
(* Model of tagger.py (mint-amazon-tagger): the matching of ledger         *)
(* transactions with Amazon orders/refunds (match_transactions,            *)
(* mark_best_as_matched), the update loop and retag policy of              *)
(* get_mint_updates, and main's hand-over to send_updates_to_mint.         *)
(*                                                                         *)
(* Money is an integer count of micro-USD; dates are integer day numbers   *)
(* (datetime.date differences are whole days).                             *)
(***************************************************************************)
EXTENDS Integers, Sequences, FiniteSets, TLC

VARIABLES
    orders,     \* list of amazon.Order (only those with items, line 251)
    refunds,    \* list of amazon.Refund
    trans,      \* list of mint.Transaction after the filters of lines 253-267
    args,       \* the parsed command line
    pc,         \* position of the run inside main / get_mint_updates
    idx,        \* position of the update loop in matched_trans
    updates,    \* the list `updates` built by the update loop
    ret,        \* the update list get_mint_updates returned
    stats,      \* the Counter `stats`
    key,        \* the last character read at the retag prompt ("none": no read)
    log,        \* per loop iteration completed: the branch it took
    ledger,     \* the ledger's current content of each transaction
    sent,       \* the requests this run posted to the ledger
    run,        \* 1 for the first run of the program, 2 for the run after it
    first,      \* the stats of the first run, once the second has started
    mint_client, \* main's mint_client: TRUE once Mint.create has returned
    calls,      \* the calls this run made on the ledger client, in order
    spins,      \* the AsyncProgress objects created, each with its timer thread
    step,       \* position of main inside a call wrapped in an AsyncProgress
    history     \* what get_mint_category_history_for_items returned

vars == <<orders, refunds, trans, args, pc, idx, updates, ret, stats, key,
          log, ledger, sent, run, first, mint_client, calls, spins, step,
          history>>

\* ------------------------------------------------------------------ bounds
MaxOrders == 2
MaxTrans == 2
MaxRefunds == 2
MaxCap == 2

\* transact_date() of an order that never shipped (shipment_date is empty)
NoDate == -1

OrderAmounts == {1, 2}
RefundAmounts == {-1}
TransAmounts == {1, 2, -1}
OrderDates == {1, 5}
RefundDates == {1}
TransDates == {1, 4}

\* ------------------------------------------------------------ small helpers
Abs(n) == IF n < 0 THEN 0 - n ELSE n

RECURSIVE SumSeq(_)
SumSeq(s) == IF s = <<>> THEN 0 ELSE Head(s) + SumSeq(Tail(s))

RECURSIVE FilterMask(_, _)
\* the elements of s whose position is set in mask, in list order
FilterMask(s, mask) ==
    IF s = <<>> THEN <<>>
    ELSE (IF Head(mask) THEN <<Head(s)>> ELSE <<>>)
         \o FilterMask(Tail(s), Tail(mask))

\* the positions 1..len(s) of a list, in order
Positions(s) == [j \in 1..Len(s) |-> j]

\* ------------------------------------------------------------ object access
\* A reference to an Order or a Refund object: k is "O" or "R", i its position
\* in the list it was parsed into.
Ref(k, i) == [k |-> k, i |-> i]

\* The heap a matching call works on: the three object lists and whether an
\* exception has escaped.
Heap(t, o, r) == [trans |-> t, orders |-> o, refunds |-> r, err |-> FALSE]

Obj(h, ref) == IF ref.k = "O" THEN h.orders[ref.i] ELSE h.refunds[ref.i]

\* Order.transact_amount() is total_charged, Refund.transact_amount() is the
\* signed refund total; both are the record's amount field here.
transact_amount(o) == o.amount

\* Order.transact_date() is shipment_date, Refund.transact_date() refund_date.
transact_date(o) == o.date

\* Truthiness of transact_date(): an empty date is falsy.
HasDate(o) == transact_date(o) # NoDate

\* Order.match(trans) / Refund.match(trans): set the matched flag.
OrderMatch(h, ref) ==
    IF ref.k = "O"
    THEN [h EXCEPT !.orders[ref.i].matched = TRUE]
    ELSE [h EXCEPT !.refunds[ref.i].matched = TRUE]

\* Transaction.match(orders): store the group in the orders field.
TransMatch(h, ti, group) == [h EXCEPT !.trans[ti].orders = group]

\* --------------------------------------------------- mark_best_as_matched
\* Variant: the matched flags are not consulted.
AlreadyMatchedIgnored(h, group) == FALSE
\* any([o.matched for o in orders])
AlreadyMatched(h, group) ==
    \E j \in 1..Len(group) : Obj(h, group[j]).matched

\* next(o for o in orders if o.transact_date()): the first member of the
\* group that has a date.  Only used when one exists.
AnOrder(h, group) ==
    LET dated == FilterMask(Positions(group),
                            [j \in 1..Len(group) |-> HasDate(Obj(h, group[j]))])
    IN  Obj(h, group[Head(dated)])

\* next() raises StopIteration when no member of the group has a date.
RaisesStopIteration(h, group) ==
    \A j \in 1..Len(group) : ~HasDate(Obj(h, group[j]))

\* (t.odate - an_order.transact_date()).days
NumDays(h, ti, group) == h.trans[ti].odate - transact_date(AnOrder(h, group))

\* Variant: the window one day narrower.
WithinWindowNarrow(num_days) == Abs(num_days) < 3
\* Variant: the window one day wider.
WithinWindowWide(num_days) == Abs(num_days) < 5
\* abs(num_days) < 4
WithinWindow(num_days) == Abs(num_days) < 4

ClosestInitial == 365

RECURSIVE ClosestMatchLastWins(_, _, _, _, _)
\* Variant: a group as close as the closest so far replaces it.
ClosestMatchLastWins(h, ti, groups, g, acc) ==
    IF g > Len(groups) THEN [err |-> FALSE, best |-> acc.best]
    ELSE IF RaisesStopIteration(h, groups[g]) THEN [err |-> TRUE, best |-> <<>>]
    ELSE LET nd == NumDays(h, ti, groups[g])
             take == /\ WithinWindow(nd)
                     /\ Abs(nd) <= acc.days
                     /\ ~AlreadyMatched(h, groups[g])
         IN  ClosestMatchLastWins(h, ti, groups, g + 1,
                 IF take THEN [best |-> groups[g], days |-> Abs(nd)] ELSE acc)

RECURSIVE ClosestMatch(_, _, _, _, _)
\* The for loop of lines 421-433 from position g on; best is closest_match
\* (<<>> for None), bestDays closest_match_num_days.  Returns
\* [err |-> TRUE] when next() raised, else [err |-> FALSE, best |-> group].
ClosestMatch(h, ti, groups, g, acc) ==
    IF g > Len(groups) THEN [err |-> FALSE, best |-> acc.best]
    ELSE IF RaisesStopIteration(h, groups[g]) THEN [err |-> TRUE, best |-> <<>>]
    ELSE LET nd == NumDays(h, ti, groups[g])
             take == /\ WithinWindow(nd)
                     /\ Abs(nd) < acc.days
                     /\ ~AlreadyMatched(h, groups[g])
         IN  ClosestMatch(h, ti, groups, g + 1,
                 IF take THEN [best |-> groups[g], days |-> Abs(nd)] ELSE acc)

RECURSIVE MatchAll(_, _, _)
\* for o in closest_match: o.match(t)
MatchAll(h, group, j) ==
    IF j > Len(group) THEN h ELSE MatchAll(OrderMatch(h, group[j]), group, j + 1)

mark_best_as_matched(h, ti, groups) ==
    IF h.err \/ groups = <<>> THEN h
    ELSE LET c == ClosestMatch(h, ti, groups, 1,
                              [best |-> <<>>, days |-> ClosestInitial])
         IN  IF c.err THEN [h EXCEPT !.err = TRUE]
             ELSE IF c.best = <<>> THEN h
             ELSE TransMatch(MatchAll(h, c.best, 1), ti, c.best)

\* ------------------------------------------------------ match_transactions
RECURSIVE CombosOfSize(_, _)
\* itertools.combinations(s, r), in its (lexicographic by position) order
CombosOfSize(s, r) ==
    IF r = 0 THEN << <<>> >>
    ELSE IF Len(s) < r THEN <<>>
    ELSE LET withHead == CombosOfSize(Tail(s), r - 1)
         IN  [j \in 1..Len(withHead) |-> <<Head(s)>> \o withHead[j]]
             \o CombosOfSize(Tail(s), r)

RECURSIVE CombosFrom(_, _)
\* for r in range(2, len(orders_same_id) + 1): combos.extend(combinations(.., r))
CombosFrom(s, r) ==
    IF r > Len(s) THEN <<>> ELSE CombosOfSize(s, r) \o CombosFrom(s, r + 1)

\* Variant: the sizes start at 3, pairs are never tried.
CombosPairsSkipped(s) == CombosFrom(s, 3)
\* combos, lines 465-467: every combination of size 2 and more
Combos(s) == CombosFrom(s, 2)

RECURSIVE ConcatAll(_)
ConcatAll(ss) == IF ss = <<>> THEN <<>> ELSE Head(ss) \o ConcatAll(Tail(ss))

RECURSIVE Dedup(_, _)
\* the keys of a dict in insertion order
Dedup(s, seen) ==
    IF s = <<>> THEN <<>>
    ELSE IF Head(s) \in seen THEN Dedup(Tail(s), seen)
    ELSE <<Head(s)>> \o Dedup(Tail(s), seen \cup {Head(s)})

GroupAmount(h, group) ==
    SumSeq([j \in 1..Len(group) |-> transact_amount(Obj(h, group[j]))])

\* Variant: the bucket holds every order, whatever its amount.
SingleBucketLoose(h, olist, amount) ==
    [j \in 1..Len(olist) |-> <<olist[j]>>]
\* First pass: amount_to_orders[amount], the singleton groups [o] of the
\* orders whose transact_amount() is the amount, in list order.
SingleBucket(h, olist, amount) ==
    LET hit == FilterMask(olist, [j \in 1..Len(olist) |->
                                     transact_amount(Obj(h, olist[j])) = amount])
    IN  [j \in 1..Len(hit) |-> <<hit[j]>>]

\* Second pass: oid_to_orders.values(), in insertion order.
OidGroups(h, olist) ==
    LET oids == Dedup([j \in 1..Len(olist) |-> Obj(h, olist[j]).order_id], {})
    IN  [g \in 1..Len(oids) |->
            FilterMask(olist, [j \in 1..Len(olist) |->
                                  Obj(h, olist[j]).order_id = oids[g]])]

\* Second pass: amount_to_orders[amount], the combinations whose total is the
\* amount, by identifier group, then by size, then in combinations() order.
ComboBucket(h, olist, amount) ==
    LET groups == OidGroups(h, olist)
        all == ConcatAll([g \in 1..Len(groups) |-> Combos(groups[g])])
    IN  FilterMask(all, [j \in 1..Len(all) |-> GroupAmount(h, all[j]) = amount])

RECURSIVE PassA(_, _, _, _)
\* for t in unmatched_trans: mark_best_as_matched(t, amount_to_orders[t.amount])
PassA(h, tlist, olist, j) ==
    IF j > Len(tlist) THEN h
    ELSE PassA(mark_best_as_matched(h, tlist[j],
                   SingleBucket(h, olist, h.trans[tlist[j]].amount)),
               tlist, olist, j + 1)

RECURSIVE PassB(_, _, _, _)
\* The combination buckets are built once, from the orders left unmatched by
\* the first pass (olist), before any transaction of the second pass is tried.
PassB(h, tlist, buckets, j) ==
    IF j > Len(tlist) THEN h
    ELSE PassB(mark_best_as_matched(h, tlist[j], buckets[h.trans[tlist[j]].amount]),
               tlist, buckets, j + 1)

match_transactions(h, tlist, olist) ==
    LET a == PassA(h, tlist, olist, 1)
        unmatched_orders ==
            FilterMask(olist, [j \in 1..Len(olist) |-> ~Obj(a, olist[j]).matched])
        unmatched_trans ==
            FilterMask(tlist, [j \in 1..Len(tlist) |-> a.trans[tlist[j]].orders = <<>>])
        amounts == {a.trans[tlist[j]].amount : j \in 1..Len(tlist)}
        buckets == [am \in amounts |-> ComboBucket(a, unmatched_orders, am)]
    IN  IF a.err THEN a ELSE PassB(a, unmatched_trans, buckets, 1)

\* ------------------------------------------------------------------- state
OrderRefs == [j \in 1..Len(orders) |-> Ref("O", j)]
RefundRefs == [j \in 1..Len(refunds) |-> Ref("R", j)]
\* lines 260-267: the transactions that are not pending and, with a category
\* filter, whose category is in it
Eligible(tr, a) ==
    FilterMask(Positions(tr), [j \in 1..Len(tr) |->
                  /\ ~tr[j].is_pending
                  /\ a.mint_input_categories_filter => tr[j].cur.cat_ok])

\* Variant: the refunds are tried on every transaction.
UnmatchedTransUnfiltered(tr, a) == Eligible(tr, a)
\* [t for t in trans if not t.orders] / [t for t in trans if t.orders]
UnmatchedTrans(tr, a) ==
    FilterMask(Positions(tr), [j \in 1..Len(tr) |->
                  /\ ~tr[j].is_pending
                  /\ a.mint_input_categories_filter => tr[j].cur.cat_ok
                  /\ tr[j].orders = <<>>])
MatchedTrans(tr) ==
    FilterMask(Positions(tr), [j \in 1..Len(tr) |-> tr[j].orders # <<>>])

\* An Order as parsed and associated with its items: items are the item
\* totals and subtotals is total_by_subtotals(), both after the fix-ups of
\* lines 320-328.
\* cat_ok: the category of its entries is one of
\* mint_input_categories_filter.
\* gift_card: 'Gift Certificate' in payment_instrument_type.
Order(oid, amount, date, items, subtotals) ==
    [order_id |-> oid, amount |-> amount, date |-> date, matched |-> FALSE,
     items |-> items, subtotals |-> subtotals, cat_ok |-> TRUE,
     gift_card |-> FALSE]

\* An order paid with a gift card.
GiftCardOrder(oid, amount, date, items, subtotals) ==
    [Order(oid, amount, date, items, subtotals) EXCEPT !.gift_card = TRUE]

OrderOther(oid, amount, date, items, subtotals) ==
    [Order(oid, amount, date, items, subtotals) EXCEPT !.cat_ok = FALSE]

Refund(oid, amount, date) ==
    [order_id |-> oid, amount |-> amount, date |-> date, matched |-> FALSE,
     items |-> <<>>, subtotals |-> amount, cat_ok |-> TRUE,
     gift_card |-> FALSE]

\* What the ledger holds for a transaction: tag "raw" is an entry this tool
\* never tagged, "edited" one it tagged and the user changed afterwards,
\* "summary"/"items" an entry bearing the output proposed for the group grp;
\* cat_ok says whether its category is one of mint_input_categories_filter.
Content(tag, grp, amounts, cat_ok) ==
    [tag |-> tag, grp |-> grp, amounts |-> amounts, cat_ok |-> cat_ok,
     category |-> "Shopping", item |-> "widget", non_item |-> FALSE]
\* category.DEFAULT_MINT_CATEGORY
DEFAULT_MINT_CATEGORY == "Uncategorized"
\* An entry this tool tagged, as the user has it now: its category, the item
\* its merchant names, and whether the merchant is one of
\* mint.NON_ITEM_MERCHANTS.
Labelled(category, item, non_item) ==
    [Content("edited", <<>>, <<>>, TRUE) EXCEPT
        !.category = category, !.item = item, !.non_item = non_item]
Raw == Content("raw", <<>>, <<>>, TRUE)
RawOther == Content("raw", <<>>, <<>>, FALSE)
Edited == Content("edited", <<>>, <<>>, TRUE)

Transaction(amount, odate, cur) ==
    [amount |-> amount, odate |-> odate, orders |-> <<>>, cur |-> cur,
     is_pending |-> FALSE]
\* A transaction the ledger reports as pending.
Pending(t) == [t EXCEPT !.is_pending = TRUE]

\* mint_input_categories_filter is TRUE when a filter is given,
\* pickled_epoch when an epoch is.
Args(prompt, retag, n, noitem, verbose, dry) ==
    [prompt_retag |-> prompt, retag_changed |-> retag, num_updates |-> n,
     no_itemize |-> noitem, verbose_itemize |-> verbose, dry_run |-> dry,
     mint_input_categories_filter |-> FALSE, pickled_epoch |-> FALSE,
     do_not_predict_categories |-> TRUE]

\* stats = Counter(already_up_to_date=0, ...), lines 87-96
InitStats ==
    [already_up_to_date |-> 0, new_tag |-> 0, no_retag |-> 0, retag |-> 0,
     user_skipped_retag |-> 0, trans_match |-> 0,
     skipped_orders_gift_card |-> 0, skipped_orders_unshipped |-> 0]

\* None, the result when categories are not to be predicted
NoHistory == [built |-> FALSE, from |-> {}, map |-> {}]
\* An AsyncProgress whose finish() has run and whose timer thread has left
\* runnable.
Stopped == [spinning |-> FALSE, finished |-> TRUE, tpc |-> "exit"]
\* The calls wrapped in an AsyncProgress when the transactions come from the
\* ledger, in the order main makes them, and those made on the ledger client.
MintStages == <<"login", "fetch_categories", "fetch_transactions", "dump">>
FetchCalls == <<"create", "get_categories", "get_transactions_json">>

\* The run has fetched from the ledger, every AsyncProgress is over, and
\* categories are not predicted: get_mint_updates is about to match.
InitRest ==
    /\ pc = "match_orders"
    /\ idx = 1
    /\ updates = <<>>
    /\ ret = <<>>
    /\ stats = InitStats
    /\ key = "none"
    /\ log = <<>>
    /\ ledger = [j \in 1..Len(trans) |-> trans[j].cur]
    /\ sent = <<>>
    /\ run = 1
    /\ first = InitStats
    /\ mint_client = TRUE
    /\ calls = FetchCalls
    /\ spins = [j \in 1..Len(MintStages) |-> Stopped]
    /\ step = "none"
    /\ history = NoHistory

\* The shipments of order 1, in every amount and date, one of them never
\* shipped and one paid with a gift card, and a shipment of order 2.
OrderObjs ==
    {Order(1, am, d, <<am>>, am) : am \in OrderAmounts, d \in OrderDates}
    \cup {Order(2, 1, 1, <<1>>, 1),
          Order(1, 1, NoDate, <<1>>, 1), GiftCardOrder(1, 2, 1, <<2>>, 2)}
RefundObjs == {Refund(1, am, d) : am \in RefundAmounts, d \in RefundDates}
TransObjs == {Transaction(am, d, Raw) : am \in TransAmounts, d \in TransDates}

InitMatch ==
    /\ orders \in [1..MaxOrders -> OrderObjs]
    /\ refunds \in [1..MaxRefunds -> RefundObjs]
    /\ trans \in [1..MaxTrans -> TransObjs]
    /\ args = Args(FALSE, FALSE, 0, FALSE, FALSE, FALSE)
    /\ InitRest

\* Runs with an order that was charged nothing and a refund of nothing: the
\* only amount an order and a refund can share.
InitFree ==
    /\ orders \in [1..MaxOrders ->
                     {Order(1, 0, 1, <<0>>, 0), Order(2, 1, 1, <<1>>, 1)}]
    /\ refunds \in [1..MaxRefunds -> {Refund(1, 0, 1), Refund(1, -1, 1)}]
    /\ trans \in [1..MaxTrans ->
                    {Transaction(0, 1, Raw), Transaction(-1, 1, Raw)}]
    /\ args = Args(FALSE, FALSE, 0, FALSE, FALSE, FALSE)
    /\ InitRest

\* lines 264-274: the category filter, match_transactions(trans, orders, ...)
MatchOrders ==
    /\ pc = "match_orders"
    /\ \E h \in {match_transactions(Heap(trans, orders, refunds),
                                      Eligible(trans, args), OrderRefs)} :
           /\ trans' = h.trans
           /\ orders' = h.orders
           /\ refunds' = h.refunds
           /\ pc' = IF h.err THEN "crashed" ELSE "match_refunds"
    /\ UNCHANGED <<args, idx, updates, ret, stats, key, log, ledger, sent, run, first,
                   mint_client, calls, spins, step, history>>

\* lines 285-291: the unmatched orders paid with a gift card / never shipped
NumGiftCard(os) ==
    Cardinality({j \in 1..Len(os) : ~os[j].matched /\ os[j].gift_card})
NumUnshipped(os) ==
    Cardinality({j \in 1..Len(os) : ~os[j].matched /\ ~HasDate(os[j])})

\* lines 276-304: unmatched_trans = [t for t in trans if not t.orders];
\* match_transactions(unmatched_trans, refunds, ...); the counters
MatchRefunds ==
    /\ pc = "match_refunds"
    /\ \E h \in {match_transactions(Heap(trans, orders, refunds),
                                      UnmatchedTrans(trans, args), RefundRefs)} :
           /\ trans' = h.trans
           /\ orders' = h.orders
           /\ refunds' = h.refunds
           /\ pc' = IF h.err THEN "crashed" ELSE "update"
           /\ stats' = [stats EXCEPT
                  !.trans_match = Len(MatchedTrans(h.trans)),
                  !.skipped_orders_gift_card = NumGiftCard(h.orders),
                  !.skipped_orders_unshipped = NumUnshipped(h.orders)]
    /\ UNCHANGED <<args, idx, updates, ret, key, log, ledger, sent, run, first,
                   mint_client, calls, spins, step, history>>

\* ------------------------------------------------- reconciliation, synthesis
\* Transaction.is_debit: the sign convention of the ledger amount.
is_debit(t) == t.amount > 0

\* currency.MICRO_USD_EPS: the epsilon of "nearly equal".
MICRO_USD_EPS == 2

\* currency.micro_usd_nearly_equal
micro_usd_nearly_equal(a, b) == Abs(a - b) < MICRO_USD_EPS

\* amazon.Order.merge(t.orders): like fields summed, item lists concatenated.
total_charged(h, grp) == GroupAmount(h, grp)
total_by_subtotals(h, grp) ==
    SumSeq([j \in 1..Len(grp) |-> Obj(h, grp[j]).subtotals])
MergedItems(h, grp) == ConcatAll([j \in 1..Len(grp) |-> Obj(h, grp[j]).items])
total_by_items(h, grp) == SumSeq(MergedItems(h, grp))

\* new_transactions before line 366: order.to_mint_transactions(t, ...) gives
\* one entry per item, [r.to_mint_transaction(t) for r in refunds] one entry
\* per refund; only the amounts are kept.
NewTransactions(h, ti) ==
    LET t == h.trans[ti]
    IN  IF is_debit(t) THEN MergedItems(h, t.orders)
        ELSE [j \in 1..Len(t.orders) |-> transact_amount(Obj(h, t.orders[j]))]

\* mint.Transaction.sum_amounts
sum_amounts(new) == SumSeq(new)

\* Variant: the assert statements are not executed.
AssertsSkipped(h, ti) == TRUE
\* The assert statements of lines 330-332 and 350-352 all hold.
AssertsHold(h, ti) ==
    LET t == h.trans[ti]
    IN  /\ is_debit(t) =>
            /\ micro_usd_nearly_equal(t.amount, total_charged(h, t.orders))
            /\ micro_usd_nearly_equal(t.amount, total_by_subtotals(h, t.orders))
            /\ micro_usd_nearly_equal(t.amount, total_by_items(h, t.orders))
        /\ micro_usd_nearly_equal(t.amount, sum_amounts(NewTransactions(h, ti)))

\* lines 366-368
Summarize(h, a, ti) ==
    LET t == h.trans[ti]
        summarize_single_item_order ==
            /\ is_debit(t)
            /\ Len(MergedItems(h, t.orders)) = 1
            /\ ~a.verbose_itemize
    IN  a.no_itemize \/ summarize_single_item_order

\* lines 368-372: mint.summarize_new_trans gives one entry carrying the
\* amount of t; mint.itemize_new_trans keeps the entries.
Proposed(h, a, ti) ==
    LET grp == h.trans[ti].orders
        cat_ok == Obj(h, grp[1]).cat_ok
    IN  IF Summarize(h, a, ti)
        THEN Content("summary", grp, <<h.trans[ti].amount>>, cat_ok)
        ELSE Content("items", grp, NewTransactions(h, ti), cat_ok)

\* mint.Transaction.old_and_new_are_identical(t, new_transactions, ...)
old_and_new_are_identical(t, new) == t.cur = new

\* Variant: no merchant is recognized as tagged.
PreviouslyTaggedNever(t) == FALSE
\* line 381: any(t.merchant.lower().startswith(pre) for pre in valid_prefixes)
PreviouslyTagged(t) == t.cur.tag # "raw"

\* Variant: the slice keeps one entry too many.
TruncateOneMore(u, n) == IF n > 0 /\ Len(u) > n + 1 THEN SubSeq(u, 1, n + 1) ELSE u
\* lines 406-407: updates[:args.num_updates] when args.num_updates > 0
Truncate(u, n) == IF n > 0 /\ Len(u) > n THEN SubSeq(u, 1, n) ELSE u

\* ------------------------------------------------------------ update loop
TheHeap == Heap(trans, orders, refunds)
matched_trans == MatchedTrans(trans)
InLoop == pc = "update" /\ idx <= Len(matched_trans)
CurT == matched_trans[idx]
CurProposed == Proposed(TheHeap, args, CurT)
CurIdentical == old_and_new_are_identical(trans[CurT], CurProposed)
CurTagged == PreviouslyTagged(trans[CurT])

\* Variant: the skipped retags are not counted.
BumpUnlessSkipped(counter) ==
    IF counter = "user_skipped_retag" THEN stats
    ELSE [stats EXCEPT ![counter] = @ + 1]
\* stats[counter] += 1
Bump(counter) == [stats EXCEPT ![counter] = @ + 1]
LogEntry(outcome, appended) == [t |-> CurT, outcome |-> outcome, appended |-> appended]
\* Variant: the entries are appended as they were before line 366.
UpdateUnsummarized ==
    [t |-> CurT,
     new |-> [CurProposed EXCEPT !.tag = "items",
                                 !.amounts = NewTransactions(TheHeap, CurT)]]
\* (t, new_transactions), line 404
Update == [t |-> CurT, new |-> CurProposed]

\* the keys readchar.readchar() may return; "" is the empty read
Keys == {"Y", "y", "\r", "\n", "n", "N", "x", ""}
\* Variant: 'x' is taken for a yes.
YesKeysAndX == {"Y", "y", "\r", "\n", "x"}
\* line 393: ('Y', 'y', '\r', '\n')
YesKeys == {"Y", "y", "\r", "\n"}

\* continue: the iteration ends without an update
Skip(counter, k) ==
    /\ stats' = Bump(counter)
    /\ log' = Append(log, LogEntry(counter, FALSE))
    /\ idx' = idx + 1
    /\ key' = k
    /\ UNCHANGED <<orders, refunds, trans, args, pc, updates, ret, ledger, sent, run, first,
                   mint_client, calls, spins, step, history>>

\* updates.append((t, new_transactions)), line 404
Apply(counter, k) ==
    /\ stats' = Bump(counter)
    /\ log' = Append(log, LogEntry(counter, TRUE))
    /\ updates' = Append(updates, Update)
    /\ idx' = idx + 1
    /\ key' = k
    /\ UNCHANGED <<orders, refunds, trans, args, pc, ret, ledger, sent, run, first,
                   mint_client, calls, spins, step, history>>

\* An assert of lines 330-332 or 350-352 fails: AssertionError leaves
\* get_mint_updates and main.
AssertFails ==
    /\ InLoop
    /\ ~AssertsHold(TheHeap, CurT)
    /\ pc' = "assert_failed"
    /\ key' = "none"
    /\ UNCHANGED <<orders, refunds, trans, args, idx, updates, ret, stats,
                   log, ledger, sent, run, first,
                   mint_client, calls, spins, step, history>>

\* lines 374-377
UpToDate ==
    /\ InLoop
    /\ AssertsHold(TheHeap, CurT)
    /\ CurIdentical
    /\ Skip("already_up_to_date", "none")

\* lines 402-404
NewTag ==
    /\ InLoop
    /\ AssertsHold(TheHeap, CurT)
    /\ ~CurIdentical
    /\ ~CurTagged
    /\ Apply("new_tag", "none")

Retaggable ==
    /\ InLoop
    /\ AssertsHold(TheHeap, CurT)
    /\ ~CurIdentical
    /\ CurTagged

CapReached == args.num_updates > 0 /\ Len(updates) >= args.num_updates

\* lines 383-384 and 406-409: break, then truncate and return
PromptBreak ==
    /\ Retaggable
    /\ args.prompt_retag
    /\ CapReached
    /\ ret' = Truncate(updates, args.num_updates)
    /\ pc' = "returned"
    /\ key' = "none"
    /\ UNCHANGED <<orders, refunds, trans, args, idx, updates, stats, log,
                   ledger, sent, run, first,
                   mint_client, calls, spins, step, history>>

\* lines 385-396: the prompt and the character read
Prompt ==
    /\ Retaggable
    /\ args.prompt_retag
    /\ ~CapReached
    /\ \E action \in Keys :
          IF action = ""
          THEN /\ pc' = "exit_1"
               /\ key' = action
               /\ UNCHANGED <<orders, refunds, trans, args, idx, updates,
                              ret, stats, log, ledger, sent, run, first,
                   mint_client, calls, spins, step, history>>
          ELSE IF action \notin YesKeys
          THEN Skip("user_skipped_retag", action)
          ELSE Apply("retag", action)

\* lines 397-399
NoRetag ==
    /\ Retaggable
    /\ ~args.prompt_retag
    /\ ~args.retag_changed
    /\ Skip("no_retag", "none")

\* lines 400-401
ForceRetag ==
    /\ Retaggable
    /\ ~args.prompt_retag
    /\ args.retag_changed
    /\ Apply("retag", "none")

\* lines 406-409: the loop is exhausted
Return ==
    /\ pc = "update"
    /\ idx > Len(matched_trans)
    /\ ret' = Truncate(updates, args.num_updates)
    /\ pc' = "returned"
    /\ key' = "none"
    /\ UNCHANGED <<orders, refunds, trans, args, idx, updates, stats, log,
                   ledger, sent, run, first,
                   mint_client, calls, spins, step, history>>

\* -------------------------------------------------------------------- main
\* lines 157-160
NoUpdates ==
    /\ pc = "returned"
    /\ ret = <<>>
    /\ pc' = "exit_0"
    /\ UNCHANGED <<orders, refunds, trans, args, idx, updates, ret, stats,
                   key, log, ledger, sent, run, first,
                   mint_client, calls, spins, step, history>>

\* lines 162-167
DryRun ==
    /\ pc = "returned"
    /\ ret # <<>>
    /\ args.dry_run
    /\ pc' = "done"
    /\ UNCHANGED <<orders, refunds, trans, args, idx, updates, ret, stats,
                   key, log, ledger, sent, run, first,
                   mint_client, calls, spins, step, history>>

\* currency: the micro-USD in a cent
CENT_MICRO_USD == 4
\* currency.micro_usd_to_usd_float: the amount in USD with two decimal
\* places, here as a number of cents; a half cent goes up.
micro_usd_to_usd_float(m) == (m + (CENT_MICRO_USD \div 2)) \div CENT_MICRO_USD

\* Variant: the amounts of a credit keep their sign.
RequestUnflipped(u) ==
    IF Len(u.new.amounts) = 1
    THEN [task |-> "txnedit", t |-> u.t, amounts |-> <<>>]
    ELSE [task |-> "split", t |-> u.t,
          amounts |-> [j \in 1..Len(u.new.amounts) |->
                          micro_usd_to_usd_float(u.new.amounts[j])]]
\* send_updates_to_mint, lines 692-755: the request posted for one update
Request(u) ==
    IF Len(u.new.amounts) = 1
    THEN [task |-> "txnedit", t |-> u.t, amounts |-> <<>>]
    ELSE [task |-> "split", t |-> u.t,
          amounts |-> [j \in 1..Len(u.new.amounts) |->
                          micro_usd_to_usd_float(
                              IF is_debit(trans[u.t]) THEN u.new.amounts[j]
                              ELSE 0 - u.new.amounts[j])]]

RECURSIVE LedgerAfter(_, _)
\* the ledger once it has served the requests of the updates us
LedgerAfter(l, us) ==
    IF us = <<>> THEN l
    ELSE LedgerAfter([l EXCEPT ![Head(us).t] = Head(us).new], Tail(us))

\* Variant: the updates are sent in a dry run too.
SendUpdatesEvenDry ==
    /\ pc = "returned"
    /\ ret # <<>>
    /\ mint_client
    /\ sent' = [j \in 1..Len(ret) |-> Request(ret[j])]
    /\ calls' = calls \o [j \in 1..Len(ret) |-> "post"]
    /\ ledger' = LedgerAfter(ledger, ret)
    /\ pc' = "done"
    /\ UNCHANGED <<orders, refunds, trans, args, idx, updates, ret, stats,
                   key, log, run, first, mint_client, spins, step, history>>
\* lines 169-175
SendUpdates ==
    /\ pc = "returned"
    /\ ret # <<>>
    /\ ~args.dry_run
    /\ mint_client
    /\ sent' = [j \in 1..Len(ret) |-> Request(ret[j])]
    /\ calls' = calls \o [j \in 1..Len(ret) |-> "post"]
    /\ ledger' = LedgerAfter(ledger, ret)
    /\ pc' = "done"
    /\ UNCHANGED <<orders, refunds, trans, args, idx, updates, ret, stats,
                   key, log, run, first, mint_client, spins, step, history>>

\* ------------------------------------------------------- AsyncProgress
\* The calls main wraps in an AsyncProgress: the four of MintStages,
\* "unpickle" (get_trans_and_categories_from_pickle) and "login_send"
\* (get_mint_client called from line 171, when no client exists yet).
Stages == {MintStages[j] : j \in 1..Len(MintStages)} \cup {"unpickle", "login_send"}

\* the call a stage makes on the ledger client, if any
StageCall(s) ==
    CASE s \in {"login", "login_send"} -> <<"create">>
      [] s = "fetch_categories" -> <<"get_categories">>
      [] s = "fetch_transactions" -> <<"get_transactions_json">>
      [] OTHER -> <<>>

\* where main is once the stage is over
StageNext(s) ==
    CASE s = "login" -> "fetch_categories"
      [] s = "fetch_categories" -> "fetch_transactions"
      [] s = "fetch_transactions" -> "dump"
      [] s = "login_send" -> "returned"
      [] OTHER -> "history"

\* lines 106-117: atexit.register, then the pickle or the ledger.
\* get_mint_client leaves with exit(1) when email or password is missing
\* (lines 493-495).
Start ==
    /\ pc = "start"
    /\ \/ /\ args.pickled_epoch
          /\ pc' = "unpickle" /\ step' = "spin"
       \/ /\ ~args.pickled_epoch
          /\ \E credentials \in BOOLEAN :
                IF credentials THEN pc' = "login" /\ step' = "spin"
                ELSE pc' = "exit_1" /\ step' = "none"
    /\ UNCHANGED <<orders, refunds, trans, args, idx, updates, ret, stats, key,
                   log, ledger, sent, run, first, mint_client, calls, spins,
                   history>>

\* AsyncProgress.__init__, lines 53-58: spinning = True, the timer thread is
\* started
SpinStart ==
    /\ pc \in Stages
    /\ step = "spin"
    /\ spins' = Append(spins, [spinning |-> TRUE, finished |-> FALSE, tpc |-> "check"])
    /\ step' = "op"
    /\ UNCHANGED <<orders, refunds, trans, args, pc, idx, updates, ret, stats,
                   key, log, ledger, sent, run, first, mint_client, calls,
                   history>>

\* The wrapped call returns (Mint.create and keyring.set_password,
\* get_categories, get_transactions_json, pickle.load, pickle.dump).
OpReturns ==
    /\ pc \in Stages
    /\ step = "op"
    /\ calls' = calls \o StageCall(pc)
    /\ step' = "stop"
    /\ UNCHANGED <<orders, refunds, trans, args, pc, idx, updates, ret, stats,
                   key, log, ledger, sent, run, first, mint_client, spins,
                   history>>

\* The wrapped call raises: nothing catches the exception, main ends with a
\* traceback and asyncSpin.finish() is not run.
OpRaises ==
    /\ pc \in Stages
    /\ step = "op"
    /\ calls' = calls \o StageCall(pc)
    /\ pc' = "crashed"
    /\ step' = "none"
    /\ UNCHANGED <<orders, refunds, trans, args, idx, updates, ret, stats, key,
                   log, ledger, sent, run, first, mint_client, spins, history>>

\* AsyncProgress.finish, line 66: self.spinning = False
FinishStop ==
    /\ pc \in Stages
    /\ step = "stop"
    /\ spins' = [spins EXCEPT ![Len(spins)].spinning = FALSE]
    /\ step' = "finish"
    /\ UNCHANGED <<orders, refunds, trans, args, pc, idx, updates, ret, stats,
                   key, log, ledger, sent, run, first, mint_client, calls,
                   history>>

\* AsyncProgress.finish, lines 67-68: self.progress.finish(); then the
\* function that made the call returns (get_mint_client returns the client).
FinishProgress ==
    /\ pc \in Stages
    /\ step = "finish"
    /\ spins' = [spins EXCEPT ![Len(spins)].finished = TRUE]
    /\ mint_client' = (mint_client \/ pc \in {"login", "login_send"})
    /\ pc' = StageNext(pc)
    /\ step' = IF StageNext(pc) \in Stages THEN "spin" ELSE "none"
    /\ UNCHANGED <<orders, refunds, trans, args, idx, updates, ret, stats, key,
                   log, ledger, sent, run, first, calls, history>>

\* AsyncProgress.runnable, line 61: the timer thread tests self.spinning
TickCheck ==
    \E i \in 1..Len(spins) :
        /\ spins[i].tpc = "check"
        /\ spins' = [spins EXCEPT
              ![i].tpc = IF spins[i].spinning THEN "next" ELSE "exit"]
        /\ UNCHANGED <<orders, refunds, trans, args, pc, idx, updates, ret,
                       stats, key, log, ledger, sent, run, first, mint_client,
                       calls, step, history>>

\* AsyncProgress.runnable, lines 62-63: self.progress.next(); time.sleep(0.1)
TickNext ==
    \E i \in 1..Len(spins) :
        /\ spins[i].tpc = "next"
        /\ spins' = [spins EXCEPT ![i].tpc = "check"]
        /\ UNCHANGED <<orders, refunds, trans, args, pc, idx, updates, ret,
                       stats, key, log, ledger, sent, run, first, mint_client,
                       calls, step, history>>

\* ----------------------------------- get_mint_category_history_for_items
\* lines 191-197: the merchant starts with a site prefix or the override
HasSitePrefix(t) == t.cur.tag # "raw"

\* Variant: the pending transactions are kept.
HistoryTransWithPending(tr) ==
    {j \in 1..Len(tr) :
        /\ is_debit(tr[j])
        /\ HasSitePrefix(tr[j])
        /\ tr[j].cur.category # DEFAULT_MINT_CATEGORY
        /\ ~tr[j].cur.non_item}
\* lines 186-205: the transactions left by the five filters
HistoryTrans(tr) ==
    {j \in 1..Len(tr) :
        /\ ~tr[j].is_pending
        /\ is_debit(tr[j])
        /\ HasSitePrefix(tr[j])
        /\ tr[j].cur.category # DEFAULT_MINT_CATEGORY
        /\ ~tr[j].cur.non_item}

\* item_to_cats[item_name][t.category], lines 207-217
Tally(tr, item, category) ==
    Cardinality({j \in HistoryTrans(tr) :
        tr[j].cur.item = item /\ tr[j].cur.category = category})

\* counter.most_common()[0][0], line 221: the category counted most often,
\* the one counted first among equals
MostCommon(tr, item) ==
    LET first_seen(c) ==
            CHOOSE j \in HistoryTrans(tr) :
                /\ tr[j].cur.item = item /\ tr[j].cur.category = c
                /\ \A i \in HistoryTrans(tr) :
                      (tr[i].cur.item = item /\ tr[i].cur.category = c) => j <= i
        cats == {tr[j].cur.category :
                    j \in {i \in HistoryTrans(tr) : tr[i].cur.item = item}}
    IN  CHOOSE c \in cats :
            \A d \in cats :
                \/ Tally(tr, item, c) > Tally(tr, item, d)
                \/ /\ Tally(tr, item, c) = Tally(tr, item, d)
                   /\ first_seen(c) <= first_seen(d)

get_mint_category_history_for_items(tr, a) ==
    IF a.do_not_predict_categories THEN NoHistory
    ELSE [built |-> TRUE,
          from |-> HistoryTrans(tr),
          map |-> {<<tr[j].cur.item, MostCommon(tr, tr[j].cur.item)>> :
                      j \in HistoryTrans(tr)}]

\* lines 132-133
CategoryHistory ==
    /\ pc = "history"
    /\ history' = get_mint_category_history_for_items(trans, args)
    /\ pc' = "match_orders"
    /\ UNCHANGED <<orders, refunds, trans, args, idx, updates, ret, stats, key,
                   log, ledger, sent, run, first, mint_client, calls, spins,
                   step>>

\* lines 169-171: the updates are to be sent and there is no client yet
SendLogin ==
    /\ pc = "returned"
    /\ ret # <<>>
    /\ ~args.dry_run
    /\ ~mint_client
    /\ \E credentials \in BOOLEAN :
          IF credentials THEN pc' = "login_send" /\ step' = "spin"
          ELSE pc' = "exit_1" /\ step' = "none"
    /\ UNCHANGED <<orders, refunds, trans, args, idx, updates, ret, stats, key,
                   log, ledger, sent, run, first, mint_client, calls, spins,
                   history>>

\* ------------------------------------------------------------- input data
\* Orders whose itemization reconciles exactly, only nearly, or not at all.
ReconOrders ==
    {Order(1, 2, 1, <<2>>, 2), Order(1, 2, 1, <<1, 1>>, 2),
     Order(1, 2, 1, <<3>>, 2), Order(1, 2, 1, <<1, 2>>, 2),
     Order(1, 2, 1, <<2, 2>>, 2), Order(1, 2, 1, <<1, 1>>, 4)}

ItemizeModes == {<<FALSE, FALSE>>, <<TRUE, FALSE>>, <<FALSE, TRUE>>}

\* Runs that differ in how well the orders reconcile and in the itemize flags.
InitRecon ==
    /\ orders \in [1..MaxOrders -> ReconOrders]
    /\ refunds \in [1..MaxRefunds -> {Refund(1, -1, 1)}]
    /\ trans \in [1..MaxTrans -> {Transaction(am, 1, Raw) : am \in {2, 4, -1}}]
    /\ \E m \in ItemizeModes :
          args = Args(FALSE, FALSE, 0, m[1], m[2], FALSE)
    /\ InitRest

\* The ledger content of a transaction tagged earlier with the first order
\* (a debit) or the first refund (a credit).
Tagged(am) ==
    IF am > 0 THEN Content("summary", <<Ref("O", 1)>>, <<am>>, TRUE)
    ELSE Content("items", <<Ref("R", 1)>>, <<am>>, TRUE)

\* Runs that differ in the retag flags, the cap and what the ledger holds.
InitPolicy ==
    /\ orders \in [1..MaxOrders -> {Order(1, 1, 1, <<1>>, 1)}]
    /\ refunds \in [1..MaxRefunds -> {Refund(1, -1, 1)}]
    /\ trans \in [1..MaxTrans ->
                    {Transaction(am, 1, Raw) : am \in {1, -1}}
                    \cup {Transaction(am, 1, Edited) : am \in {1, -1}}
                    \cup {Transaction(am, 1, Tagged(am)) : am \in {1, -1}}]
    /\ \E p \in BOOLEAN, r \in BOOLEAN, n \in 0..MaxCap, d \in BOOLEAN :
          args = Args(p, r, n, FALSE, FALSE, d)
    /\ InitRest

Init == InitRecon \/ InitPolicy

\* The program is started again on the same orders, items and refunds with
\* the same arguments: the reports are parsed anew and the transactions are
\* fetched from the ledger as the first run left them.
Rerun ==
    /\ pc \in {"done", "exit_0"}
    /\ ~args.dry_run
    /\ run = 1
    /\ run' = 2
    /\ first' = stats
    /\ trans' = [j \in 1..Len(trans) |->
                    Transaction(trans[j].amount, trans[j].odate, ledger[j])]
    /\ orders' = [j \in 1..Len(orders) |-> [orders[j] EXCEPT !.matched = FALSE]]
    /\ refunds' = [j \in 1..Len(refunds) |-> [refunds[j] EXCEPT !.matched = FALSE]]
    /\ pc' = "match_orders"
    /\ idx' = 1
    /\ updates' = <<>>
    /\ ret' = <<>>
    /\ stats' = InitStats
    /\ key' = "none"
    /\ log' = <<>>
    /\ sent' = <<>>
    /\ UNCHANGED <<args, ledger, mint_client, calls, spins, step, history>>

\* The start of main: nothing fetched, no client, no AsyncProgress.
InitStart ==
    /\ pc = "start"
    /\ idx = 1
    /\ updates = <<>>
    /\ ret = <<>>
    /\ stats = InitStats
    /\ key = "none"
    /\ log = <<>>
    /\ ledger = [j \in 1..Len(trans) |-> trans[j].cur]
    /\ sent = <<>>
    /\ run = 1
    /\ first = InitStats
    /\ mint_client = FALSE
    /\ calls = <<>>
    /\ spins = <<>>
    /\ step = "none"
    /\ history = NoHistory

\* The orders are two shipments of one order with two items each, the
\* refunds are refunds of one item each.
MainOrders == {Order(1, 8, 1, <<4, 4>>, 8)}
MainRefunds == {Refund(1, -4, 1)}

\* Whole runs on new transactions (a debit, a credit for two refunds, a
\* credit for one): the transactions come from the ledger or from a pickle
\* and the run is dry or not.
InitMainRun ==
    /\ orders \in [1..MaxOrders -> MainOrders]
    /\ refunds \in [1..MaxRefunds -> MainRefunds]
    /\ trans \in [1..MaxTrans ->
          {Transaction(8, 1, Raw), Transaction(-8, 1, Raw), Transaction(-4, 1, Raw)}]
    /\ \E d \in BOOLEAN, p \in BOOLEAN :
          args = [Args(FALSE, FALSE, 0, FALSE, FALSE, d) EXCEPT !.pickled_epoch = p]
    /\ InitStart

\* Transactions tagged before, with the category the user gave them since.
TaggedBefore ==
    {Transaction(8, 1, Content("items", <<Ref("O", 1)>>, <<4, 4>>, TRUE)),
     Transaction(8, 1, Labelled("Games", "widget", FALSE)),
     Transaction(4, 1, Labelled("Books", "widget", FALSE)),
     Pending(Transaction(4, 1, Labelled("Books", "widget", FALSE))),
     Transaction(-4, 1, Labelled("Books", "widget", FALSE)),
     Transaction(4, 1, Labelled(DEFAULT_MINT_CATEGORY, "widget", FALSE)),
     Transaction(4, 1, Labelled("Books", "shipping", TRUE))}

\* Dry runs from a pickle on transactions tagged before; categories are
\* predicted or not.
InitMainHistory ==
    /\ orders \in [1..MaxOrders -> MainOrders]
    /\ refunds \in [1..MaxRefunds -> MainRefunds]
    /\ trans \in [1..MaxTrans -> TaggedBefore]
    /\ \E n \in BOOLEAN :
          args = [Args(FALSE, FALSE, 0, FALSE, FALSE, TRUE) EXCEPT
                     !.pickled_epoch = TRUE, !.do_not_predict_categories = n]
    /\ InitStart

InitMain == InitMainRun \/ InitMainHistory

\* A whole run with retagging off.
NextMain ==
    \/ Start
    \/ SpinStart
    \/ OpReturns
    \/ OpRaises
    \/ FinishStop
    \/ FinishProgress
    \/ TickCheck
    \/ TickNext
    \/ CategoryHistory
    \/ MatchOrders
    \/ MatchRefunds
    \/ UpToDate
    \/ NewTag
    \/ NoRetag
    \/ Return
    \/ NoUpdates
    \/ DryRun
    \/ SendLogin
    \/ SendUpdates

\* Two runs in a row with retagging off: the cap and the category filter
\* vary, every order reconciles.
InitTwice ==
    /\ orders \in [1..MaxOrders ->
                     {Order(1, 1, 1, <<1>>, 1), OrderOther(1, 1, 1, <<1>>, 1),
                      Order(2, 2, 1, <<2>>, 2)}]
    /\ refunds \in [1..MaxRefunds -> {Refund(1, -1, 1)}]
    /\ trans \in [1..MaxTrans ->
                    {Transaction(1, 1, c) : c \in {Raw, RawOther, Edited, Tagged(1)}}]
    /\ \E n \in {0, 1}, f \in BOOLEAN :
          args = [Args(FALSE, FALSE, n, FALSE, FALSE, FALSE)
                      EXCEPT !.mint_input_categories_filter = f]
    /\ InitRest

\* The actions a run with retagging off can take, and the second start.
NextTwice ==
    \/ MatchOrders
    \/ MatchRefunds
    \/ UpToDate
    \/ NewTag
    \/ NoRetag
    \/ Return
    \/ NoUpdates
    \/ SendUpdates
    \/ Rerun


Next ==
    \/ MatchOrders
    \/ MatchRefunds
    \/ AssertFails
    \/ UpToDate
    \/ NewTag
    \/ PromptBreak
    \/ Prompt
    \/ NoRetag
    \/ ForceRetag
    \/ Return
    \/ NoUpdates
    \/ DryRun
    \/ SendUpdates

\* ================================================================= claims
AllRefs ==
    {Ref("O", j) : j \in 1..Len(orders)} \cup {Ref("R", j) : j \in 1..Len(refunds)}
Members(grp) == {grp[j] : j \in 1..Len(grp)}
\* the transactions whose orders field holds the record
LinkedTo(ref) == {ti \in 1..Len(trans) : ref \in Members(trans[ti].orders)}
\* both match_transactions calls have returned
MatchingDone == pc \notin {"match_orders", "match_refunds", "crashed"}
Gap(ti, ref) == Abs(trans[ti].odate - transact_date(Obj(TheHeap, ref)))
InWindow(ti, ref) == HasDate(Obj(TheHeap, ref)) /\ Gap(ti, ref) <= 3

\* C1: once both match_transactions calls have run, every Order/Refund is in
\* the orders field of at most one transaction, no orders field holds a
\* record twice, and a record's matched flag is set exactly when the record
\* is in the orders field of exactly one transaction.
C1_Assignment ==
    MatchingDone =>
        /\ \A ref \in AllRefs :
              /\ Cardinality(LinkedTo(ref)) <= 1
              /\ Obj(TheHeap, ref).matched <=> Cardinality(LinkedTo(ref)) = 1
        /\ \A ti \in 1..Len(trans) :
              Cardinality(Members(trans[ti].orders)) = Len(trans[ti].orders)

\* Two transactions of the same amount were both in the window of one order;
\* one got it and the other stayed unmatched.
C1_Witness ==
    /\ MatchingDone
    /\ \E ref \in AllRefs, t1, t2 \in 1..Len(trans) :
          /\ t1 # t2
          /\ trans[t1].amount = trans[t2].amount
          /\ trans[t1].orders = <<ref>>
          /\ trans[t2].orders = <<>>
          /\ InWindow(t1, ref) /\ InWindow(t2, ref)

\* C2: whenever a transaction's orders field is not empty, the sum of
\* transact_amount() over the records in it equals the transaction's amount
\* exactly, for a single record and for a combination.
C2_AmountSound ==
    \A ti \in 1..Len(trans) :
        trans[ti].orders # <<>> =>
            GroupAmount(TheHeap, trans[ti].orders) = trans[ti].amount

\* One transaction is linked to a single record and another to a combination.
C2_Witness ==
    /\ MatchingDone
    /\ \E t1, t2 \in 1..Len(trans) :
          /\ Len(trans[t1].orders) = 1
          /\ Len(trans[t2].orders) >= 2

\* C3 as claimed: every dated record in a transaction's orders field, the
\* members of a combination included, lies within 3 days of the
\* transaction's posted date.
C3_EachMemberInWindow ==
    \A ti \in 1..Len(trans) :
        \A ref \in Members(trans[ti].orders) :
            HasDate(Obj(TheHeap, ref)) => Gap(ti, ref) <= 3

\* C3 as amended: a transaction's orders field is not empty only if the
\* first record in it that has a date lies within 3 days of the
\* transaction's posted date (for a single record: the record itself).
C3_RepresentativeInWindow ==
    \A ti \in 1..Len(trans) :
        trans[ti].orders # <<>> =>
            /\ \E ref \in Members(trans[ti].orders) : HasDate(Obj(TheHeap, ref))
            /\ Abs(NumDays(TheHeap, ti, trans[ti].orders)) <= 3
            /\ Len(trans[ti].orders) = 1 => InWindow(ti, trans[ti].orders[1])

\* A transaction is linked at a gap of exactly 3 days, and some exactly
\* equal amount 4 days away was left alone.
C3_Witness ==
    /\ MatchingDone
    /\ \E ti \in 1..Len(trans) :
          /\ trans[ti].orders # <<>>
          /\ Abs(NumDays(TheHeap, ti, trans[ti].orders)) = 3
    /\ \E ti \in 1..Len(trans), ref \in AllRefs :
          /\ trans[ti].orders = <<>>
          /\ ~Obj(TheHeap, ref).matched
          /\ transact_amount(Obj(TheHeap, ref)) = trans[ti].amount
          /\ HasDate(Obj(TheHeap, ref))
          /\ Gap(ti, ref) = 4

\* C12 as claimed: no order paid with a gift card and no order without a
\* ship date is ever linked to a transaction, and such an order among the
\* candidates of a transaction never aborts the run.
C12_ExcludedSilently ==
    /\ pc # "crashed"
    /\ \A j \in 1..Len(orders) :
          (orders[j].gift_card \/ ~HasDate(orders[j])) =>
              LinkedTo(Ref("O", j)) = {}

\* The records of one kind ("O": orders, "R": refunds), as match_transactions
\* gets them.
KindRefs(k) == IF k = "O" THEN OrderRefs ELSE RefundRefs
\* the record is linked as a single record (by a first pass)
SingleLinked(ref) == \E ti \in 1..Len(trans) : trans[ti].orders = <<ref>>
\* the sets of two or more positions of records of kind k that share one
\* order identifier
ComboSets(k) ==
    {S \in SUBSET (1..Len(KindRefs(k))) :
        /\ Cardinality(S) >= 2
        /\ \A i, j \in S :
              Obj(TheHeap, Ref(k, i)).order_id = Obj(TheHeap, Ref(k, j)).order_id}
ComboSum(k, S) ==
    SumSeq([j \in 1..Len(KindRefs(k)) |->
               IF j \in S THEN transact_amount(Obj(TheHeap, Ref(k, j))) ELSE 0])
\* the first member of the combination that has a date lies within 3 days
RepInWindow(ti, k, S) ==
    \E j \in S :
        /\ InWindow(ti, Ref(k, j))
        /\ \A i \in S : i < j => ~HasDate(Obj(TheHeap, Ref(k, i)))
\* a group of two or more records holds records of one kind and one order
\* identifier
C13_GroupsShareId ==
    \A ti \in 1..Len(trans) :
        \A r1, r2 \in Members(trans[ti].orders) :
            /\ r1.k = r2.k
            /\ Obj(TheHeap, r1).order_id = Obj(TheHeap, r2).order_id

\* C13 as claimed: once matching is done, a transaction that no first pass
\* linked, and for which two or more records of one order identifier, none
\* of them linked by a first pass, sum to its amount, each within 3 days of
\* it, is linked to a combination; every group of two or more records
\* linked shares one order identifier.
C13_ComboLinked ==
    MatchingDone =>
        /\ C13_GroupsShareId
        /\ \A ti \in 1..Len(trans), k \in {"O", "R"} :
              \A S \in ComboSets(k) :
                  (/\ Len(trans[ti].orders) # 1
                   /\ \A j \in S : ~SingleLinked(Ref(k, j))
                   /\ ComboSum(k, S) = trans[ti].amount
                   /\ \A j \in S : InWindow(ti, Ref(k, j)))
                  => Len(trans[ti].orders) >= 2

\* C13 as amended: once matching is done, no transaction is left unmatched
\* while two or more records of one order identifier, all still unmatched,
\* sum to its amount with their first dated member within 3 days of it: a
\* transaction misses such a combination only when an earlier transaction
\* has taken one of its members.  Every group of two or more records linked
\* shares one order identifier.
C13_ComboMaximal ==
    MatchingDone =>
        /\ C13_GroupsShareId
        /\ \A ti \in 1..Len(trans), k \in {"O", "R"} :
              \A S \in ComboSets(k) :
                  (/\ trans[ti].orders = <<>>
                   /\ ComboSum(k, S) = trans[ti].amount
                   /\ RepInWindow(ti, k, S))
                  => \E j \in S : Obj(TheHeap, Ref(k, j)).matched

\* A transaction is linked to a combination that no single record of its
\* amount could have served, and a later transaction of the same amount,
\* inside the window of the same records, is left unmatched.
C13_Witness ==
    /\ MatchingDone
    /\ \E t1, t2 \in 1..Len(trans) :
          /\ t1 < t2
          /\ Len(trans[t1].orders) >= 2
          /\ trans[t2].orders = <<>>
          /\ trans[t2].amount = trans[t1].amount
          /\ \A ref \in Members(trans[t1].orders) : InWindow(t2, ref)

\* the transaction is among those the call for kind k gets: it passes the
\* category filter and, for the refunds, the orders left it unmatched
Processed(ti, k) ==
    /\ args.mint_input_categories_filter => trans[ti].cur.cat_ok
    /\ k = "R" => \A ref \in Members(trans[ti].orders) : ref.k = "R"
\* the single records of kind k a first pass can give the transaction: of
\* exactly its amount, within 3 days, not linked as a single record to a
\* transaction earlier in the list
Candidates(ti, k) ==
    {j \in 1..Len(KindRefs(k)) :
        /\ transact_amount(Obj(TheHeap, Ref(k, j))) = trans[ti].amount
        /\ InWindow(ti, Ref(k, j))
        /\ ~\E t0 \in 1..(ti - 1) : trans[t0].orders = <<Ref(k, j)>>}
\* the candidate with the smallest gap, the first in the list among equals
Nearest(ti, k) ==
    CHOOSE j \in Candidates(ti, k) :
        \A i \in Candidates(ti, k) :
            \/ Gap(ti, Ref(k, j)) < Gap(ti, Ref(k, i))
            \/ Gap(ti, Ref(k, j)) = Gap(ti, Ref(k, i)) /\ j <= i

\* C14: once matching is done, every transaction a first pass got is linked
\* to the single record that is, among the records of exactly its amount
\* within 3 days that no earlier transaction of the list holds, the nearest
\* in date, the first in the list among equally near ones; without such a
\* record it holds no single record of that kind.
C14_NearestGreedy ==
    MatchingDone =>
        \A ti \in 1..Len(trans), k \in {"O", "R"} :
            Processed(ti, k) =>
                IF Candidates(ti, k) # {}
                THEN trans[ti].orders = <<Ref(k, Nearest(ti, k))>>
                ELSE ~\E j \in 1..Len(KindRefs(k)) : trans[ti].orders = <<Ref(k, j)>>

\* A transaction took the later but nearer of two orders inside its window,
\* and the next transaction, as near to that order, got the farther one.
C14_Witness ==
    /\ MatchingDone
    /\ \E t1, t2 \in 1..Len(trans), j1, j2 \in 1..Len(orders) :
          /\ t1 < t2 /\ j1 < j2
          /\ trans[t1].orders = <<Ref("O", j2)>>
          /\ trans[t2].orders = <<Ref("O", j1)>>
          /\ InWindow(t1, Ref("O", j1))
          /\ Gap(t1, Ref("O", j2)) < Gap(t1, Ref("O", j1))
          /\ Gap(t2, Ref("O", j2)) < Gap(t2, Ref("O", j1))

\* C15: the refund matching leaves every link the order matching made as it
\* is, and no orders field ever holds Orders and Refunds together.
C15_OrdersBeforeRefunds ==
    [][/\ \A ti \in 1..Len(trans) :
            (pc = "match_refunds" /\ trans[ti].orders # <<>>) =>
                trans'[ti].orders = trans[ti].orders
       /\ \A ti \in 1..Len(trans') :
            \A r1, r2 \in Members(trans'[ti].orders) : r1.k = r2.k]_vars

\* The refund matching is over; a transaction holds an order although a
\* refund of exactly its amount, within 3 days, is left unmatched, and
\* another transaction holds a refund.
C15_Witness ==
    /\ pc = "update"
    /\ \E ti \in 1..Len(trans), j \in 1..Len(refunds) :
          /\ trans[ti].orders # <<>>
          /\ trans[ti].orders[1].k = "O"
          /\ transact_amount(refunds[j]) = trans[ti].amount
          /\ InWindow(ti, Ref("R", j))
          /\ ~refunds[j].matched
    /\ \E ti \in 1..Len(trans) :
          /\ trans[ti].orders # <<>>
          /\ trans[ti].orders[1].k = "R"

\* an unmatched transaction the call for kind k got and an unmatched record
\* of kind k have exactly the same amount and lie within 3 days
LeftOver(ti, k, j) ==
    /\ Processed(ti, k)
    /\ trans[ti].orders = <<>>
    /\ ~Obj(TheHeap, Ref(k, j)).matched
    /\ transact_amount(Obj(TheHeap, Ref(k, j))) = trans[ti].amount
    /\ InWindow(ti, Ref(k, j))

\* C18: when match_transactions has returned for the orders, and again when
\* it has returned for the refunds, no unmatched transaction and unmatched
\* record of its inputs have exactly equal amounts and a gap of at most 3
\* days.
C18_SingleMaximal ==
    /\ pc \notin {"match_orders", "crashed"} =>
          \A ti \in 1..Len(trans), j \in 1..Len(orders) : ~LeftOver(ti, "O", j)
    /\ MatchingDone =>
          \A ti \in 1..Len(trans), j \in 1..Len(refunds) : ~LeftOver(ti, "R", j)

\* Matching is done and left a transaction and an order of exactly its
\* amount unmatched, 4 days apart, while every other transaction holds a
\* single record.
C18_Witness ==
    /\ MatchingDone
    /\ \E ti \in 1..Len(trans), j \in 1..Len(orders) :
          /\ trans[ti].orders = <<>>
          /\ ~orders[j].matched
          /\ transact_amount(orders[j]) = trans[ti].amount
          /\ HasDate(orders[j])
          /\ Gap(ti, Ref("O", j)) = 4
          /\ \A t2 \in 1..Len(trans) : t2 # ti => Len(trans[t2].orders) = 1

\* get_mint_updates has returned
Returned == pc \in {"returned", "exit_0", "done"}
SumOf(u) == SumSeq(u.new.amounts)

\* C4 as claimed: for every update returned, the amounts of the new entries
\* sum to the amount of the original transaction exactly.
C4_ExactSum ==
    \A j \in 1..Len(ret) : SumOf(ret[j]) = trans[ret[j].t].amount

\* C4 as amended: for every update returned, the amounts of the new entries
\* sum to the amount of the original transaction within the epsilon of
\* micro_usd_nearly_equal; the sum is exact when the update is a single
\* summarized entry and when the transaction is a credit.
C4_SumWithinEpsilon ==
    \A j \in 1..Len(ret) :
        LET t == trans[ret[j].t]
        IN  /\ Abs(SumOf(ret[j]) - t.amount) < MICRO_USD_EPS
            /\ (ret[j].new.tag = "summary" \/ t.amount <= 0) =>
                  SumOf(ret[j]) = t.amount

\* An itemized debit update whose entries do not sum to the amount is
\* returned beside a summarized one.
C4_Witness ==
    /\ Returned
    /\ \E j, k \in 1..Len(ret) :
          /\ ret[j].new.tag = "items"
          /\ trans[ret[j].t].amount > 0
          /\ SumOf(ret[j]) # trans[ret[j].t].amount
          /\ ret[k].new.tag = "summary"

\* the checks of lines 330-332 and 350-352 for transaction ti, restated
C5_ChecksHold(ti) ==
    LET t == trans[ti]
        near(a, b) == Abs(a - b) < MICRO_USD_EPS
    IN  /\ t.amount > 0 =>
            /\ near(t.amount, GroupAmount(TheHeap, t.orders))
            /\ near(t.amount, total_by_subtotals(TheHeap, t.orders))
            /\ near(t.amount, total_by_items(TheHeap, t.orders))
        /\ near(t.amount, SumSeq(NewTransactions(TheHeap, ti)))

\* the update loop has run the checks of its j-th transaction
C5_Checked(j) == j < idx \/ (j = idx /\ pc # "update")

\* C5: once the update loop has run the checks of a matched transaction for
\* which one of them fails, the run is over with an AssertionError and no
\* request has been posted to the ledger, also not for the transactions the
\* loop handled before.
C5_FaultIsFatal ==
    (/\ MatchingDone
     /\ \E j \in 1..Len(matched_trans) :
           C5_Checked(j) /\ ~C5_ChecksHold(matched_trans[j]))
    => (pc = "assert_failed" /\ sent = <<>>)

\* The run died on a failed check with an update already collected.
C5_Witness == pc = "assert_failed" /\ updates # <<>> /\ sent = <<>>

C7_Mode ==
    IF args.prompt_retag THEN "interactive"
    ELSE IF args.retag_changed THEN "force" ELSE "default"

\* the row of the decision table for a transaction: the outcomes allowed
C7_Allowed(ti) ==
    IF trans[ti].cur = Proposed(TheHeap, args, ti)
        THEN {[outcome |-> "already_up_to_date", appended |-> FALSE]}
    ELSE IF trans[ti].cur.tag = "raw"
        THEN {[outcome |-> "new_tag", appended |-> TRUE]}
    ELSE IF C7_Mode = "force"
        THEN {[outcome |-> "retag", appended |-> TRUE]}
    ELSE IF C7_Mode = "default"
        THEN {[outcome |-> "no_retag", appended |-> FALSE]}
    ELSE {[outcome |-> "retag", appended |-> TRUE],
          [outcome |-> "user_skipped_retag", appended |-> FALSE]}

C7_Appended == FilterMask(log, [j \in 1..Len(log) |-> log[j].appended])
C7_Count(outcome) == Cardinality({j \in 1..Len(log) : log[j].outcome = outcome})

\* C7: every iteration of the update loop that completed took the outcome
\* its row of the decision table names (current equals proposed: skipped as
\* already_up_to_date in every mode; else not previously tagged: appended as
\* new_tag; else force: appended as retag; default: not appended, no_retag;
\* interactive: appended as retag on Y/y/Enter, not appended and counted
\* user_skipped_retag on n/N); the counters and the update list are exactly
\* what these outcomes say.
C7_DecisionTable ==
    /\ \A j \in 1..Len(log) :
          /\ log[j].t = matched_trans[j]
          /\ [outcome |-> log[j].outcome, appended |-> log[j].appended]
                \in C7_Allowed(log[j].t)
    /\ (key \in {"Y", "y", "\r", "\n"} /\ pc = "update") =>
          (log[Len(log)].outcome = "retag" /\ log[Len(log)].appended)
    /\ (key \in {"n", "N"} /\ pc = "update") =>
          (log[Len(log)].outcome = "user_skipped_retag" /\ ~log[Len(log)].appended)
    /\ updates = [j \in 1..Len(C7_Appended) |->
                     [t |-> C7_Appended[j].t,
                      new |-> Proposed(TheHeap, args, C7_Appended[j].t)]]
    /\ \A c \in {"already_up_to_date", "new_tag", "retag", "no_retag",
                 "user_skipped_retag"} : stats[c] = C7_Count(c)

\* In interactive mode one previously tagged, changed transaction was
\* retagged on a yes and another skipped on a no.
C7_Witness ==
    /\ C7_Mode = "interactive"
    /\ stats.retag >= 1
    /\ key \in {"n", "N"}
    /\ pc = "update"

C8_Sum ==
    stats.already_up_to_date + stats.new_tag + stats.retag + stats.no_retag
    + stats.user_skipped_retag

\* C8 as claimed: whenever get_mint_updates has returned, the five outcome
\* counters sum to trans_match.
C8_AllCounted == Returned => C8_Sum = stats.trans_match

\* C8 as amended: whenever get_mint_updates has returned, the five outcome
\* counters sum to the number of matched transactions the loop handled,
\* which is trans_match unless the run is interactive with a cap N > 0 and
\* the loop stopped at a previously tagged, changed transaction after N
\* updates were collected; then the sum is smaller than trans_match.
C8_HandledCounted ==
    Returned =>
        /\ C8_Sum = idx - 1
        /\ C8_Sum <= stats.trans_match
        /\ stats.trans_match = Len(matched_trans)
        /\ ~(args.prompt_retag /\ args.num_updates > 0) =>
              C8_Sum = stats.trans_match
        /\ C8_Sum < stats.trans_match =>
              /\ Len(updates) >= args.num_updates
              /\ trans[matched_trans[idx]].cur.tag # "raw"

\* The interactive loop stopped at the cap before the last matched
\* transaction.
C8_Witness ==
    /\ Returned
    /\ args.prompt_retag
    /\ C8_Sum < stats.trans_match

Min(a, b) == IF a < b THEN a ELSE b

\* C9: when get_mint_updates has returned with a cap N > 0, the list
\* returned has at most N entries and is the first N (or all, if fewer) of
\* the updates the loop resolved, which are in the order the matched
\* transactions were met; if the loop stopped early, N were resolved
\* already; with N = 0 the list returned is all of them.
C9_Cap ==
    Returned =>
        /\ args.num_updates > 0 =>
              /\ Len(ret) <= args.num_updates
              /\ ret = SubSeq(updates, 1, Min(args.num_updates, Len(updates)))
              /\ idx <= Len(matched_trans) => Len(updates) >= args.num_updates
        /\ args.num_updates = 0 => ret = updates
        /\ \A j, k \in 1..Len(updates) : j < k => updates[j].t < updates[k].t
        /\ \A j \in 1..Len(updates) : updates[j].t = C7_Appended[j].t

\* More updates were resolved than the cap lets through.
C9_Witness ==
    /\ Returned
    /\ args.num_updates > 0
    /\ Len(updates) > args.num_updates
    /\ Len(ret) = args.num_updates

\* C10 as claimed: a character read at the prompt that is neither a yes
\* (Y, y, Enter) nor a no (n, N) ends the run.
C10_MalformedAborts ==
    key \notin {"none", "Y", "y", "\r", "\n", "n", "N"} => pc = "exit_1"

\* C10 as amended: only the empty read ends the run (exit(1), nothing is
\* posted to the ledger); every other character that is not Y, y or Enter
\* is taken as a no: the transaction is not updated, user_skipped_retag
\* counts it and the loop goes on.
C10_OnlyEmptyReadAborts ==
    /\ key = "" => (pc = "exit_1" /\ sent = <<>>)
    /\ pc = "exit_1" => key = ""
    /\ key \notin {"none", "", "Y", "y", "\r", "\n"} =>
          /\ pc = "update"
          /\ log[Len(log)].outcome = "user_skipped_retag"
          /\ ~log[Len(log)].appended

\* The empty read ended a run that had collected an update.
C10_Witness == key = "" /\ pc = "exit_1" /\ updates # <<>>

\* the second run has returned from get_mint_updates, retagging off
C6_SecondRunOver ==
    run = 2 /\ Returned /\ ~args.prompt_retag /\ ~args.retag_changed

NextMatch == MatchOrders \/ MatchRefunds

\* the calls made on the ledger client that write to the ledger
C11_Posts == {j \in 1..Len(calls) : calls[j] = "post"}

\* C11 as claimed: in a dry run the ledger boundary is not invoked at any
\* point: no client is made, no call goes to the ledger, nothing is sent.
C11_DryRunNoLedger ==
    args.dry_run => (~mint_client /\ calls = <<>> /\ sent = <<>>)

\* C11 as amended: in a dry run nothing is written to the ledger
\* (send_updates_to_mint is not reached, no request is posted, the ledger
\* keeps its content); the ledger is still logged into and read at the start
\* of the run unless the transactions come from a pickle, and only with a
\* pickle is no client made and no call made at all.
C11_DryRunNoWrites ==
    args.dry_run =>
        /\ sent = <<>>
        /\ C11_Posts = {}
        /\ ledger = [j \in 1..Len(trans) |-> trans[j].cur]
        /\ args.pickled_epoch => (~mint_client /\ calls = <<>>)
        /\ calls \in {SubSeq(FetchCalls, 1, n) : n \in 0..Len(FetchCalls)}

\* a dry run that fetched from the ledger has shown its proposed changes
C11_Witness ==
    /\ args.dry_run
    /\ ~args.pickled_epoch
    /\ pc = "done"
    /\ ret # <<>>
    /\ mint_client
    /\ calls = FetchCalls

\* the amount of a new entry as the ledger takes it for the transaction ti
C16_Signed(ti, amount) == IF trans[ti].amount > 0 THEN amount ELSE 0 - amount

\* C16: every request sent stands for the update at its position; an update
\* with one new entry is sent as an edit in place that carries no amount,
\* an update with more entries as a split whose i-th amount is the amount of
\* the i-th new entry for a debit and its negation for a credit (in the
\* unit of the ledger, which is the same sum of money when the entry is a
\* whole number of cents).
C16_SplitSigns ==
    sent # <<>> =>
        /\ Len(sent) = Len(ret)
        /\ \A j \in 1..Len(sent) :
              LET u == ret[j]
                  r == sent[j]
              IN  /\ r.t = u.t
                  /\ IF Len(u.new.amounts) = 1
                     THEN r.task = "txnedit" /\ r.amounts = <<>>
                     ELSE /\ r.task = "split"
                          /\ Len(r.amounts) = Len(u.new.amounts)
                          /\ \A i \in 1..Len(r.amounts) :
                                LET e == C16_Signed(u.t, u.new.amounts[i])
                                IN  /\ r.amounts[i] = micro_usd_to_usd_float(e)
                                    /\ e % CENT_MICRO_USD = 0
                                          => r.amounts[i] * CENT_MICRO_USD = e

\* a debit and a credit have both been sent as splits
C16_Witness ==
    /\ pc = "done"
    /\ \E j \in 1..Len(sent) :
          /\ sent[j].task = "split"
          /\ trans[sent[j].t].amount > 0
          /\ sent[j].amounts = <<1, 1>>
    /\ \E j \in 1..Len(sent) :
          /\ sent[j].task = "split"
          /\ trans[sent[j].t].amount < 0
          /\ ret[j].new.amounts = <<-4, -4>>
          /\ sent[j].amounts = <<1, 1>>

\* the transaction at ti is one the category ledger may be built from,
\* whether matched or not
C17_Source(ti) ==
    /\ ~trans[ti].is_pending
    /\ trans[ti].amount > 0
    /\ trans[ti].cur.tag # "raw"
    /\ trans[ti].cur.category # DEFAULT_MINT_CATEGORY
    /\ ~trans[ti].cur.non_item

\* how many such transactions name the item with the category
C17_Count(item, category) ==
    Cardinality({ti \in 1..Len(trans) :
        /\ C17_Source(ti)
        /\ trans[ti].cur.item = item
        /\ trans[ti].cur.category = category})

\* the mapping holds keys and categories of such transactions only, one
\* category per item, none counted less often for the item than another
C17_MapFromSources ==
    /\ \A ti \in history.from : C17_Source(ti)
    /\ \A m \in history.map :
          /\ C17_Count(m[1], m[2]) > 0
          /\ \A c \in {trans[ti].cur.category : ti \in 1..Len(trans)} :
                C17_Count(m[1], m[2]) >= C17_Count(m[1], c)
          /\ \A n \in history.map : n[1] = m[1] => n = m
    /\ args.do_not_predict_categories => history = NoHistory

\* C17 as claimed: the category ledger is built only from transactions that
\* are matched, not pending, debits, of another category than the default
\* and with an item-level merchant; no mapping is built with prediction
\* disabled.
C17_MatchedSources ==
    /\ C17_MapFromSources
    /\ MatchingDone => \A ti \in history.from : trans[ti].orders # <<>>

\* C17 as amended: the category ledger is built, before any matching of the
\* run, only from transactions that are not pending, debits, of another
\* category than the default and whose merchant starts with a site prefix
\* and is no non-item merchant, matched by this run or not; no other
\* transaction gives a key or a tally, and no mapping is built with
\* prediction disabled.
C17_TaggedSources ==
    /\ C17_MapFromSources
    /\ history.built =>
          /\ ~args.do_not_predict_categories
          /\ history.from = {ti \in 1..Len(trans) : C17_Source(ti)}
          /\ {m[1] : m \in history.map} =
                {trans[ti].cur.item : ti \in history.from}
    /\ pc \in {"match_orders", "match_refunds"} =>
          history.built = ~args.do_not_predict_categories

\* the mapping was built from a transaction that no order of the run
\* matches, next to a pending one that gave nothing
C17_Witness ==
    /\ pc = "exit_0"
    /\ history.built
    /\ history.map = {<<"widget", "Books">>}
    /\ \E ti \in history.from : trans[ti].orders = <<>>
    /\ \E ti \in 1..Len(trans) :
          trans[ti].is_pending /\ trans[ti].cur.category = "Books"

\* main has ended: it returned, left through exit() or died of an exception
C19_MainOver == pc \in {"done", "exit_0", "exit_1", "crashed"}

\* the timer thread of the i-th AsyncProgress runs progress.next() in the step
C19_Next(i) == spins[i].tpc = "next" /\ spins'[i].tpc = "check"

\* C19 as claimed: when main has ended, by an exception of a wrapped call
\* too, finish() has been called on every AsyncProgress started, so that no
\* timer thread is left spinning; and a timer thread runs no progress.next()
\* once finish() has called progress.finish().
C19_TickersStop ==
    [][/\ C19_MainOver' => \A i \in 1..Len(spins') : ~spins'[i].spinning
       /\ \A i \in 1..Len(spins) : C19_Next(i) => ~spins[i].finished]_vars

SpecMatch == (InitMatch \/ InitFree) /\ [][NextMatch]_vars

Spec == Init /\ [][Next]_vars

SpecMain == InitMain /\ [][NextMain]_vars

SpecTwice == InitTwice /\ [][NextTwice]_vars
====
